---------------------------- MODULE Spec2Model ----------------------------
(***************************************************************************)
(* FNFTpy: the Python wrappers around the FNFT library                     *)
(* (nsev_slow / nsev_slow_wrapper, nsev_inverse / nsev_inverse_wrapper /   *)
(* nsev_inverse_xi_wrapper, nsep / nsep_wrapper).                          *)
(*                                                                         *)
(* Each wrapper is one action: it marshals its arguments, invokes the      *)
(* library (whose status and outputs are chosen nondeterministically       *)
(* within the library's contract), and either returns a result or raises.  *)
(* `libcalls` records, in order, every library invocation the call made,   *)
(* with the arguments handed over; `outcome` is what the caller gets back; *)
(* `mem` holds the caller's own arrays as they are once the call is over;  *)
(* `prev` is an earlier call the caller keeps in mind, with the library    *)
(* invocations it made.                                                    *)
(***************************************************************************)
EXTENDS Integers, Sequences, FiniteSets, TLC

VARIABLES call, libcalls, outcome, mem, prev

vars == <<call, libcalls, outcome, mem, prev>>

---------------------------------------------------------------------------
(* Bounds of the model.                                                    *)

\* longest caller-owned array (q, tvec, contspec, bound_states, ...)
MaxLen == 2
\* largest size argument (D, M, K) a caller passes explicitly
MaxCount == 2
\* width of ctypes_uint, scaled down; values wrap modulo 2^UintBits
UintBits == 6
\* largest array np.zeros can allocate; 4 * MaxAlloc < 2^UintBits, as on a
\* real machine, where an allocatable element count times four never wraps
MaxAlloc == 12

UintMod == 2 ^ UintBits

---------------------------------------------------------------------------
(* Values.                                                                 *)

\* a complex number
Cplx(re, im) == [re |-> re, im |-> im]

\* the zero np.zeros fills a buffer with
Zero == Cplx(0, 0)

\* x + 0.0j, and the cast done by assigning a real into a complex array
ToComplex(x) == Cplx(x, 0)

\* an optional argument: None, or a value
None == <<>>

Some(v) == <<v>>

\* a caller-owned numpy array of n distinct real samples
Ramp(n) == [i \in 1..n |-> i]

Arrays == {Ramp(n) : n \in 0..MaxLen}

\* a null pointer / a pointer to a buffer the wrapper allocated; `owner` is
\* "wrapper" for such a buffer and the argument's name for a caller's array
NullPtr == [null |-> TRUE, data |-> <<>>, owner |-> ""]

Buf(data) == [null |-> FALSE, data |-> data, owner |-> "wrapper"]

\* FilledCopy binding the buffer's name to the caller's array (buf = arg)
FilledCopy_Rebound(arg, data) == [null |-> FALSE, data |-> data, owner |-> arg]

\* buf[:] = arg[:] after buf = np.zeros(n): the wrapper's buffer holding the
\* values of the caller's array `arg`
FilledCopy(arg, data) == Buf(data)

\* status codes of the library: 0 success, 1 InvalidArgument,
\* 2 NumericalDegeneracy, 3 NonConvergence, 4 CapacityExceeded, 5 Fatal
StatusCodes == 0..5

LowSeverityCodes == {2, 3, 4}

SevereCodes == {1, 5}

\* size arguments a caller may pass, valid or not
SizeArgs == (-1)..MaxCount

\* (T1, T2) pairs a caller may pass: a proper window, an empty one, a reversed one
TPairs == {<<0, 1>>, <<1, 1>>, <<1, 0>>}

Kappas == {1, -1}

\* time vectors a caller may pass: every vector over two instants
TVecs == UNION {[1..n -> {0, 1}] : n \in 0..MaxLen}

---------------------------------------------------------------------------
(* Python and numpy primitives the wrappers use.                           *)

\* ctypes_uint(n).value: no overflow check, the value wraps
CUint(n) == n % UintMod

\* NpZeros leaving the memory as it is (np.empty): after an earlier call the
\* cells hold what that call left there
NpZeros_Uninitialised(n) ==
  IF n < 0 THEN [exc |-> "ValueError", data |-> <<>>]
  ELSE IF n > MaxAlloc THEN [exc |-> "MemoryError", data |-> <<>>]
  ELSE [exc |-> "",
        data |-> [i \in 1..n |-> IF prev.call.fn = "none" THEN Zero ELSE Cplx(i, 7)]]

\* np.zeros(n, dtype=...)
NpZeros(n) ==
  IF n < 0 THEN [exc |-> "ValueError", data |-> <<>>]
  ELSE IF n > MaxAlloc THEN [exc |-> "MemoryError", data |-> <<>>]
  ELSE [exc |-> "", data |-> [i \in 1..n |-> Zero]]

\* dst[:] = src for one-dimensional arrays: shapes must agree or src must
\* have one element (broadcast)
AssignAll(dstlen, src) ==
  IF Len(src) = dstlen THEN [exc |-> "", data |-> src]
  ELSE IF Len(src) = 1 THEN [exc |-> "", data |-> [i \in 1..dstlen |-> src[1]]]
  ELSE [exc |-> "ValueError", data |-> <<>>]

\* np.min, np.max
NpMin(v) == CHOOSE x \in {v[i] : i \in 1..Len(v)} : \A j \in 1..Len(v) : x <= v[j]

NpMax(v) == CHOOSE x \in {v[i] : i \in 1..Len(v)} : \A j \in 1..Len(v) : x >= v[j]

\* q[:] + 0.0j
PlusZeroJ(q) == [i \in 1..Len(q) |-> ToComplex(q[i])]

\* a[lo:hi] for a sequence and lo, hi >= 0: out-of-range bounds are clipped
PySlice(a, lo, hi) ==
  LET n == Len(a)
      l == IF lo > n THEN n ELSE lo
      h == IF hi > n THEN n ELSE hi
  IN IF l >= h THEN <<>> ELSE SubSeq(a, l + 1, h)

\* what the library leaves in an output buffer of which it wrote the first
\* `written` cells: cell i holds a value that identifies buffer and position
LibFill(buf, tag, written) ==
  [i \in 1..Len(buf) |-> IF i <= written THEN Cplx(i, tag) ELSE buf[i]]

\* counts the library may report through a count pointer of capacity cap:
\* at most the capacity it was told
LibCounts(cap) == {k \in 0..cap : k <= 1 \/ k = cap}

\* the bound-state count fnft_nsev_slow reports: when it completed (status
\* not severe) the number of bound states it stored, which is 0 when it was
\* given no buffer; when it gave up, any count, the untouched K included
LibBoundStateCounts(cap, buf, rv) ==
  IF buf.null /\ rv \notin SevereCodes THEN {0} ELSE LibCounts(cap)

\* check_return_code(rv): a severe status raises, any other passes
check_return_code(rv) == IF rv \in SevereCodes THEN "FNFTError" ELSE ""

\* the arguments of a library call that are pointers to arrays
BufferArgs == {"q", "cont", "contspec", "bound_states", "normconst_or_residues",
               "main", "aux", "sheet"}

\* the arguments of a wrapper that are arrays of the caller
CallerArrays == {"q", "tvec", "contspec", "bound_states", "normconst_or_residues"}

\* the library was handed the caller's array `arg` itself in one of the calls lc
HandedOver(lc, arg) ==
  \E i \in 1..Len(lc) : \E f \in DOMAIN lc[i] \cap BufferArgs : lc[i][f].owner = arg

\* an array after the library wrote through a pointer to it
Overwritten(a) == [i \in 1..Len(a) |-> a[i] + 1]

\* the caller's arrays after call c made the library calls lc: the library
\* may write through every pointer it is handed
MemAfter(c, lc) ==
  [arg \in DOMAIN c \cap CallerArrays |->
     IF ~HandedOver(lc, arg) THEN c[arg]
     ELSE IF arg \in {"bound_states", "normconst_or_residues"}
     THEN IF c[arg] = None THEN None ELSE Some(Overwritten(c[arg][1]))
     ELSE Overwritten(c[arg])]

\* the caller's memory while no call is under way
NoMem == <<>>

\* no earlier call kept in mind
NoPrev == [call |-> [fn |-> "none"], libcalls |-> <<>>]

\* results
NoOutcome == [kind |-> "none", exc |-> "", rdict |-> <<>>, pair |-> <<>>]

Raise(e) == [kind |-> "raise", exc |-> e, rdict |-> <<>>, pair |-> <<>>]

Return(d) == [kind |-> "return", exc |-> "", rdict |-> d, pair |-> <<>>]

ReturnPair(p) == [kind |-> "return", exc |-> "", rdict |-> <<>>, pair |-> p]

---------------------------------------------------------------------------
(* nsep / nsep_wrapper                                                     *)

\* get_nsep_options(dis=...): the library defaults, dis overridden when given
get_nsep_options(dis) ==
  [discretization |-> IF dis = None THEN 2 ELSE dis[1]]

\* NsepMainCapacity with the factor of the auxiliary spectrum
NsepMainCapacity_Factor2(Dval) == CUint(2 * Dval)

\* capacity of the main spectrum: nsep_K = ctypes_uint(4 * nsep_D.value)
NsepMainCapacity(Dval) == CUint(4 * Dval)

\* capacity of the auxiliary spectrum: nsep_M = ctypes_uint(2 * nsep_D.value)
NsepAuxCapacity(Dval) == CUint(2 * Dval)

\* nsep_wrapper up to the library call: the arguments handed to fnft_nsep,
\* or the exception raised while building them
NsepMarshal(D, q, T1, T2, kappa, options) ==
  LET Dval == CUint(D)
      qbuf == NpZeros(Dval)
      qcpy == AssignAll(Dval, PlusZeroJ(q))
      Kcap == NsepMainCapacity(Dval)
      main == NpZeros(Kcap)
      Mcap == NsepAuxCapacity(Dval)
      aux  == NpZeros(Mcap)
  IN IF qbuf.exc # "" THEN [exc |-> qbuf.exc, args |-> <<>>]
     ELSE IF qcpy.exc # "" THEN [exc |-> qcpy.exc, args |-> <<>>]
     ELSE IF main.exc # "" THEN [exc |-> main.exc, args |-> <<>>]
     ELSE IF aux.exc # "" THEN [exc |-> aux.exc, args |-> <<>>]
     ELSE [exc |-> "",
           args |-> [fn |-> "fnft_nsep", D |-> Dval, q |-> FilledCopy("q", qcpy.data),
                     T |-> <<T1, T2>>, K |-> Kcap, main |-> Buf(main.data),
                     M |-> Mcap, aux |-> Buf(aux.data), sheet |-> NullPtr,
                     kappa |-> kappa, options |-> options]]

\* NsepResult reporting success whatever rv is
NsepResult_StatusDropped(args, rv, Kout, Mout) ==
  LET main == LibFill(args.main.data, 1, Kout)
      aux  == LibFill(args.aux.data, 2, Mout)
  IN ("return_value" :> 0) @@ ("K" :> Kout) @@ ("main" :> PySlice(main, 0, Kout))
     @@ ("M" :> Mout) @@ ("aux" :> PySlice(aux, 0, Mout))
     @@ ("options" :> args.options)

\* the dictionary nsep_wrapper builds after the library returned rv, having
\* set the counts to Kout and Mout and written that many spectrum points
NsepResult(args, rv, Kout, Mout) ==
  LET main == LibFill(args.main.data, 1, Kout)
      aux  == LibFill(args.aux.data, 2, Mout)
  IN ("return_value" :> rv) @@ ("K" :> Kout) @@ ("main" :> PySlice(main, 0, Kout))
     @@ ("M" :> Mout) @@ ("aux" :> PySlice(aux, 0, Mout))
     @@ ("options" :> args.options)

\* the library call of nsep_wrapper and what follows it
NsepFinish(c, m) ==
  \E rv \in StatusCodes, Kout \in LibCounts(m.args.K), Mout \in LibCounts(m.args.M) :
    /\ call' = c
    /\ libcalls' = <<m.args @@ ("rv" :> rv)>>
    /\ outcome' = Return(NsepResult(m.args, rv, Kout, Mout))

NsepRun(c, D, q, T1, T2, kappa, options) ==
  LET m == NsepMarshal(D, q, T1, T2, kappa, options)
  IN IF m.exc # ""
     THEN call' = c /\ libcalls' = <<>> /\ outcome' = Raise(m.exc)
     ELSE NsepFinish(c, m)

nsep_wrapper ==
  /\ call.fn = "none"
  /\ \E D \in SizeArgs \cup {1 - UintMod}, q \in Arrays, T \in TPairs, kappa \in Kappas,
        options \in {get_nsep_options(None)} :
       NsepRun([fn |-> "nsep_wrapper", D |-> D, q |-> q, T1 |-> T[1], T2 |-> T[2],
                kappa |-> kappa, options |-> options],
               D, q, T[1], T[2], kappa, options)
  /\ mem' = MemAfter(call', libcalls')
  /\ UNCHANGED prev

nsep ==
  /\ call.fn = "none"
  /\ \E q \in Arrays, T \in TPairs, kappa \in Kappas, dis \in {None, Some(4)} :
       NsepRun([fn |-> "nsep", q |-> q, T1 |-> T[1], T2 |-> T[2],
                kappa |-> kappa, dis |-> dis],
               Len(q), q, T[1], T[2], kappa, get_nsep_options(dis))
  /\ mem' = MemAfter(call', libcalls')
  /\ UNCHANGED prev

---------------------------------------------------------------------------
(* nsev_inverse / nsev_inverse_wrapper / nsev_inverse_xi_wrapper           *)

\* the value of dis when the caller of nsev_inverse omits it
NsevInverseDefaultDis == 4

\* the default of dis the docstring of nsev_inverse states
NsevInverseDocumentedDis == 1

\* get_nsev_inverse_options(dis, None, ...): the library defaults with the
\* discretization overridden when dis is given
get_nsev_inverse_options(dis) ==
  [discretization |-> IF dis = None THEN NsevInverseDocumentedDis ELSE dis[1],
   contspec_type |-> 0, contspec_inversion_method |-> 0,
   max_iter |-> 100, oversampling_factor |-> 8]

\* XiFailed with the test written rv < 0
XiFailed_OnlyNegative(rv) == rv < 0

\* the test nsev_inverse makes on the status of the Xi computation
XiFailed(rv) == rv # 0

\* NsevInverseXiArgs with the two indices exchanged
NsevInverseXiArgs_Swapped(tmpxi) == <<tmpxi[2], tmpxi[1]>>

\* the Xi1, Xi2 nsev_inverse hands on: tmpxi[0], tmpxi[1]
NsevInverseXiArgs(tmpxi) == <<tmpxi[1], tmpxi[2]>>

\* pairs the library may leave in the Xi buffer (the first: untouched)
XiOuts == {<<0, 0>>, <<-1, 1>>, <<-2, 2>>}

\* nsev_inverse_xi_wrapper up to the library call
XiMarshal(D, T1, T2, M, dis) ==
  [fn |-> "fnft_nsev_inverse_XI", D |-> CUint(D), T |-> <<T1, T2>>,
   M |-> CUint(M), Xi |-> <<0, 0>>, dis |-> dis]

\* what nsev_inverse_xi_wrapper returns: rv, nsev_Xi
XiResult(rv, xi) == <<rv, xi>>

\* NsevInverseDiscrete with the test written K >= 0
NsevInverseDiscrete_FromZero(K, bound_states, normconst_or_residues) ==
  IF K >= 0
  THEN LET bs  == NpZeros(K)
           bsc == IF bound_states = None THEN [exc |-> "TypeError", data |-> <<>>]
                  ELSE AssignAll(K, PlusZeroJ(bound_states[1]))
           dsc == IF normconst_or_residues = None
                  THEN [exc |-> "TypeError", data |-> <<>>]
                  ELSE AssignAll(K, PlusZeroJ(normconst_or_residues[1]))
       IN IF bs.exc # "" THEN [exc |-> bs.exc, bs |-> NullPtr, ds |-> NullPtr]
          ELSE IF bsc.exc # "" THEN [exc |-> bsc.exc, bs |-> NullPtr, ds |-> NullPtr]
          ELSE IF dsc.exc # "" THEN [exc |-> dsc.exc, bs |-> NullPtr, ds |-> NullPtr]
          ELSE [exc |-> "", bs |-> FilledCopy("bound_states", bsc.data),
                ds |-> FilledCopy("normconst_or_residues", dsc.data)]
  ELSE [exc |-> "", bs |-> NullPtr, ds |-> NullPtr]

\* the discrete-spectrum arguments of nsev_inverse_wrapper: two copies when
\* K > 0, two null pointers otherwise
NsevInverseDiscrete(K, bound_states, normconst_or_residues) ==
  IF K > 0
  THEN LET bs  == NpZeros(K)
           ds  == NpZeros(K)
           bsc == IF bound_states = None THEN [exc |-> "TypeError", data |-> <<>>]
                  ELSE AssignAll(K, PlusZeroJ(bound_states[1]))
           dsc == IF normconst_or_residues = None
                  THEN [exc |-> "TypeError", data |-> <<>>]
                  ELSE AssignAll(K, PlusZeroJ(normconst_or_residues[1]))
       IN IF bs.exc # "" THEN [exc |-> bs.exc, bs |-> NullPtr, ds |-> NullPtr]
          ELSE IF bsc.exc # "" THEN [exc |-> bsc.exc, bs |-> NullPtr, ds |-> NullPtr]
          ELSE IF dsc.exc # "" THEN [exc |-> dsc.exc, bs |-> NullPtr, ds |-> NullPtr]
          ELSE [exc |-> "", bs |-> FilledCopy("bound_states", bsc.data),
                ds |-> FilledCopy("normconst_or_residues", dsc.data)]
  ELSE [exc |-> "", bs |-> NullPtr, ds |-> NullPtr]

\* nsev_inverse_wrapper up to the library call
NsevInverseMarshal(M, contspec, Xi1, Xi2, K, bound_states, normconst_or_residues, D, T1, T2, kappa, options) ==
  LET cbuf == NpZeros(M)
      ccpy == AssignAll(M, PlusZeroJ(contspec))
      disc == NsevInverseDiscrete(K, bound_states, normconst_or_residues)
      Dval == CUint(D)
      qbuf == NpZeros(Dval)
  IN IF cbuf.exc # "" THEN [exc |-> cbuf.exc, args |-> <<>>]
     ELSE IF ccpy.exc # "" THEN [exc |-> ccpy.exc, args |-> <<>>]
     ELSE IF disc.exc # "" THEN [exc |-> disc.exc, args |-> <<>>]
     ELSE IF qbuf.exc # "" THEN [exc |-> qbuf.exc, args |-> <<>>]
     ELSE [exc |-> "",
           args |-> [fn |-> "fnft_nsev_inverse", M |-> CUint(M),
                     contspec |-> FilledCopy("contspec", ccpy.data), Xi |-> <<Xi1, Xi2>>,
                     K |-> CUint(K), bound_states |-> disc.bs,
                     normconst_or_residues |-> disc.ds, D |-> Dval,
                     q |-> Buf(qbuf.data), T |-> <<T1, T2>>, kappa |-> kappa,
                     options |-> options]]

\* what nsev_inverse_wrapper does with the status rv of the library call
NsevInverseResult(args, rv) ==
  IF check_return_code(rv) # "" THEN Raise(check_return_code(rv))
  ELSE Return(("return_value" :> rv)
              @@ ("q" :> LibFill(args.q.data, 3, Len(args.q.data)))
              @@ ("options" :> args.options))

\* nsev_inverse_wrapper, after the library calls `before` of the same call
NsevInverseRun(c, before, M, contspec, Xi1, Xi2, K, bound_states, normconst_or_residues, D, T1, T2, kappa, options) ==
  LET m == NsevInverseMarshal(M, contspec, Xi1, Xi2, K, bound_states,
                              normconst_or_residues, D, T1, T2, kappa, options)
  IN IF m.exc # ""
     THEN call' = c /\ libcalls' = before /\ outcome' = Raise(m.exc)
     ELSE \E rv \in StatusCodes :
            /\ call' = c
            /\ libcalls' = Append(before, m.args @@ ("rv" :> rv))
            /\ outcome' = NsevInverseResult(m.args, rv)

nsev_inverse_wrapper ==
  /\ call.fn = "none"
  /\ \E M \in SizeArgs, contspec \in Arrays, K \in SizeArgs,
        bound_states \in {None} \cup {Some(Ramp(n)) : n \in 1..MaxLen},
        normconst_or_residues \in
          {None} \cup {Some([i \in 1..n |-> MaxLen + i]) : n \in 1..MaxLen},
        D \in SizeArgs, T \in {<<0, 1>>, <<1, 1>>},
        options \in {get_nsev_inverse_options(None)} :
       NsevInverseRun([fn |-> "nsev_inverse_wrapper", M |-> M, contspec |-> contspec,
                       Xi1 |-> -1, Xi2 |-> 1, K |-> K, bound_states |-> bound_states,
                       normconst_or_residues |-> normconst_or_residues, D |-> D,
                       T1 |-> T[1], T2 |-> T[2], kappa |-> 1, options |-> options],
                      <<>>, M, contspec, -1, 1, K, bound_states,
                      normconst_or_residues, D, T[1], T[2], 1, options)
  /\ mem' = MemAfter(call', libcalls')
  /\ UNCHANGED prev

nsev_inverse_xi_wrapper ==
  /\ call.fn = "none"
  /\ \E D \in SizeArgs, T \in TPairs, M \in SizeArgs, dis \in 0..4,
        rv \in StatusCodes, xi \in XiOuts :
       /\ call' = [fn |-> "nsev_inverse_xi_wrapper", D |-> D, T1 |-> T[1],
                   T2 |-> T[2], M |-> M, dis |-> dis]
       /\ libcalls' = <<XiMarshal(D, T[1], T[2], M, dis) @@ ("rv" :> rv) @@ ("out" :> xi)>>
       /\ outcome' = ReturnPair(XiResult(rv, xi))
  /\ mem' = MemAfter(call', libcalls')
  /\ UNCHANGED prev

\* the body of nsev_inverse once dis has its value
NsevInverseBody(c, contspec, tvec, kappa, dis) ==
  IF Len(tvec) = 0
  THEN call' = c /\ libcalls' = <<>> /\ outcome' = Raise("ValueError")
  ELSE LET M  == Len(contspec)
           D  == Len(tvec)
           T1 == NpMin(tvec)
           T2 == NpMax(tvec)
           K  == 0
       IN \E rv \in StatusCodes, tmpxi \in XiOuts :
            LET xicall == XiMarshal(D, T1, T2, M, dis) @@ ("rv" :> rv) @@ ("out" :> tmpxi)
            IN IF XiFailed(XiResult(rv, tmpxi)[1])
               THEN call' = c /\ libcalls' = <<xicall>> /\ outcome' = Raise("ValueError")
               ELSE NsevInverseRun(c, <<xicall>>, M, contspec,
                                   NsevInverseXiArgs(XiResult(rv, tmpxi)[2])[1],
                                   NsevInverseXiArgs(XiResult(rv, tmpxi)[2])[2],
                                   K, None, None, D, T1, T2, kappa,
                                   get_nsev_inverse_options(Some(dis)))

nsev_inverse ==
  /\ call.fn = "none"
  /\ \E contspec \in Arrays, tvec \in TVecs, kappa \in Kappas,
        dis \in {None} \cup {Some(d) : d \in 0..4} :
       NsevInverseBody([fn |-> "nsev_inverse", contspec |-> contspec, tvec |-> tvec,
                        kappa |-> kappa, dis |-> dis],
                       contspec, tvec, kappa,
                       IF dis = None THEN NsevInverseDefaultDis ELSE dis[1])
  /\ mem' = MemAfter(call', libcalls')
  /\ UNCHANGED prev

---------------------------------------------------------------------------
(* nsev_slow / nsev_slow_wrapper                                           *)

\* get_nsev_slow_options(dst=..., cst=...): the library defaults, each field
\* overridden when the argument is given
get_nsev_slow_options(dst, cst) ==
  [discspec_type |-> IF dst = None THEN 0 ELSE dst[1],
   contspec_type |-> IF cst = None THEN 0 ELSE cst[1]]

\* NsevSlowDiscSize without the doubling for discspec_type 2
NsevSlowDiscSize_AlwaysK(K, discspec_type) == K

\* the size of the coefficient buffer when the discrete spectrum is computed:
\* K for norming constants or residues, 2 * K for both
NsevSlowDiscSize(K, discspec_type) ==
  IF discspec_type = 2 THEN 2 * K ELSE K

\* the bound-state and coefficient buffers, by options.discspec_type
NsevSlowDiscrete(K, options) ==
  IF options.discspec_type \in {0, 1, 2}
  THEN LET ds == NpZeros(NsevSlowDiscSize(K, options.discspec_type))
           bs == NpZeros(K)
       IN IF ds.exc # "" THEN [exc |-> ds.exc, bs |-> NullPtr, ds |-> NullPtr]
          ELSE IF bs.exc # "" THEN [exc |-> bs.exc, bs |-> NullPtr, ds |-> NullPtr]
          ELSE [exc |-> "", bs |-> Buf(bs.data), ds |-> Buf(ds.data)]
  ELSE [exc |-> "", bs |-> NullPtr, ds |-> NullPtr]

\* the continuous-spectrum buffer, by options.contspec_type
NsevSlowCont(M, options) ==
  LET n == IF options.contspec_type = 0 THEN M
           ELSE IF options.contspec_type = 1 THEN 2 * M
           ELSE 3 * M
      b == NpZeros(n)
  IN IF options.contspec_type \in {0, 1, 2}
     THEN IF b.exc # "" THEN [exc |-> b.exc, cont |-> NullPtr]
          ELSE [exc |-> "", cont |-> Buf(b.data)]
     ELSE [exc |-> "", cont |-> NullPtr]

\* nsev_slow_wrapper up to the library call
NsevSlowMarshal(D, q, T1, T2, Xi1, Xi2, M, K, kappa, options) ==
  LET Dval == CUint(D)
      qbuf == NpZeros(Dval)
      qcpy == AssignAll(Dval, PlusZeroJ(q))
      disc == NsevSlowDiscrete(K, options)
      cont == NsevSlowCont(M, options)
  IN IF qbuf.exc # "" THEN [exc |-> qbuf.exc, args |-> <<>>]
     ELSE IF qcpy.exc # "" THEN [exc |-> qcpy.exc, args |-> <<>>]
     ELSE IF disc.exc # "" THEN [exc |-> disc.exc, args |-> <<>>]
     ELSE IF cont.exc # "" THEN [exc |-> cont.exc, args |-> <<>>]
     ELSE [exc |-> "",
           args |-> [fn |-> "fnft_nsev_slow", D |-> Dval, q |-> FilledCopy("q", qcpy.data),
                     T |-> <<T1, T2>>, M |-> CUint(M), cont |-> cont.cont,
                     Xi |-> <<Xi1, Xi2>>, K |-> CUint(K), bound_states |-> disc.bs,
                     normconst_or_residues |-> disc.ds, kappa |-> kappa,
                     options |-> options]]

\* PtrSlice dereferencing the pointer whatever the slice
PtrSlice_NullAlwaysRaises(p, lo, hi) ==
  IF p.null
  THEN [exc |-> "ValueError", data |-> <<>>]
  ELSE [exc |-> "", data |-> PySlice(p.data, lo, hi)]

\* p[lo:hi] where p is a numpy array or a ctypes pointer: slicing a null
\* pointer gives the empty list when the slice is empty and raises otherwise
PtrSlice(p, lo, hi) ==
  IF p.null
  THEN IF hi > lo THEN [exc |-> "ValueError", data |-> <<>>]
       ELSE [exc |-> "", data |-> <<>>]
  ELSE [exc |-> "", data |-> PySlice(p.data, lo, hi)]

\* NsevSlowDiscKeys storing the residues under 'disc_norm' for discspec_type 1
NsevSlowDiscKeys_WrongKey(discspec, K_new, options) ==
  IF options.discspec_type = 0 \/ options.discspec_type = 1
  THEN "disc_norm" :> PySlice(discspec, 0, K_new)
  ELSE IF options.discspec_type = 2
  THEN ("disc_norm" :> PySlice(discspec, 0, K_new))
       @@ ("disc_res" :> PySlice(discspec, K_new, 2 * K_new))
  ELSE <<>>

\* the discrete-spectrum entries of the result, by options.discspec_type
NsevSlowDiscKeys(discspec, K_new, options) ==
  IF options.discspec_type = 0
  THEN "disc_norm" :> PySlice(discspec, 0, K_new)
  ELSE IF options.discspec_type = 1
  THEN "disc_res" :> PySlice(discspec, 0, K_new)
  ELSE IF options.discspec_type = 2
  THEN ("disc_norm" :> PySlice(discspec, 0, K_new))
       @@ ("disc_res" :> PySlice(discspec, K_new, 2 * K_new))
  ELSE <<>>

\* NsevSlowContKeys taking 'cont_b' of contspec_type 2 from [M, 2M)
NsevSlowContKeys_SecondSegmentTwice(cont, M, options) ==
  IF options.contspec_type = 0
  THEN "cont_ref" :> PySlice(cont, 0, M)
  ELSE IF options.contspec_type = 1
  THEN ("cont_a" :> PySlice(cont, 0, M)) @@ ("cont_b" :> PySlice(cont, M, 2 * M))
  ELSE IF options.contspec_type = 2
  THEN ("cont_ref" :> PySlice(cont, 0, M)) @@ ("cont_a" :> PySlice(cont, M, 2 * M))
       @@ ("cont_b" :> PySlice(cont, M, 2 * M))
  ELSE <<>>

\* the continuous-spectrum entries of the result, by options.contspec_type
NsevSlowContKeys(cont, M, options) ==
  IF options.contspec_type = 0
  THEN "cont_ref" :> PySlice(cont, 0, M)
  ELSE IF options.contspec_type = 1
  THEN ("cont_a" :> PySlice(cont, 0, M)) @@ ("cont_b" :> PySlice(cont, M, 2 * M))
  ELSE IF options.contspec_type = 2
  THEN ("cont_ref" :> PySlice(cont, 0, M)) @@ ("cont_a" :> PySlice(cont, M, 2 * M))
       @@ ("cont_b" :> PySlice(cont, 2 * M, 3 * M))
  ELSE <<>>

\* what nsev_slow_wrapper does after the library returned rv, having set the
\* bound-state count to Kout and filled the buffers it was given
NsevSlowResult(args, M, rv, Kout) ==
  LET K_new == Kout
      bsbuf == IF args.bound_states.null THEN NullPtr
               ELSE Buf(LibFill(args.bound_states.data, 4, K_new))
      nds   == IF args.options.discspec_type = 2 THEN 2 * K_new ELSE K_new
      ds    == LibFill(args.normconst_or_residues.data, 5, nds)
      cont  == LibFill(args.cont.data, 6, Len(args.cont.data))
      bs    == PtrSlice(bsbuf, 0, K_new)
  IN IF check_return_code(rv) # "" THEN Raise(check_return_code(rv))
     ELSE IF bs.exc # "" THEN Raise(bs.exc)
     ELSE Return(("return_value" :> rv) @@ ("bound_states_num" :> K_new)
                 @@ ("bound_states" :> bs.data)
                 @@ NsevSlowDiscKeys(ds, K_new, args.options)
                 @@ NsevSlowContKeys(cont, M, args.options)
                 @@ ("options" :> args.options))

NsevSlowRun(c, D, q, T1, T2, Xi1, Xi2, M, K, kappa, options) ==
  LET m == NsevSlowMarshal(D, q, T1, T2, Xi1, Xi2, M, K, kappa, options)
  IN IF m.exc # ""
     THEN call' = c /\ libcalls' = <<>> /\ outcome' = Raise(m.exc)
     ELSE \E rv \in StatusCodes :
          \E Kout \in LibBoundStateCounts(m.args.K, m.args.bound_states, rv) :
            /\ call' = c
            /\ libcalls' = <<m.args @@ ("rv" :> rv) @@ ("Kout" :> Kout)>>
            /\ outcome' = NsevSlowResult(m.args, M, rv, Kout)

\* values of discspec_type and contspec_type a caller may set: the four
\* documented ones and one other
TypeArgs == 0..4

nsev_slow_wrapper ==
  /\ call.fn = "none"
  /\ \E D \in SizeArgs, q \in Arrays, T \in {<<0, 1>>, <<1, 1>>}, M \in SizeArgs,
        K \in SizeArgs, dst \in TypeArgs, cst \in TypeArgs :
       LET options == [discspec_type |-> dst, contspec_type |-> cst]
       IN NsevSlowRun([fn |-> "nsev_slow_wrapper", D |-> D, q |-> q, T1 |-> T[1],
                       T2 |-> T[2], Xi1 |-> -2, Xi2 |-> 2, M |-> M, K |-> K,
                       kappa |-> 1, options |-> options],
                      D, q, T[1], T[2], -2, 2, M, K, 1, options)
  /\ mem' = MemAfter(call', libcalls')
  /\ UNCHANGED prev

\* nsev_slow, called with explicit M and K
nsev_slow ==
  /\ call.fn = "none"
  /\ \E q \in Arrays, tvec \in TVecs, kappa \in Kappas,
        dst \in {None} \cup {Some(d) : d \in 0..3},
        cst \in {None, Some(2), Some(3)} :
       LET c == [fn |-> "nsev_slow", q |-> q, tvec |-> tvec, Xi1 |-> -2, Xi2 |-> 2,
                 M |-> MaxCount, K |-> MaxCount, kappa |-> kappa, dst |-> dst,
                 cst |-> cst]
       IN IF Len(tvec) = 0
          THEN call' = c /\ libcalls' = <<>> /\ outcome' = Raise("ValueError")
          ELSE NsevSlowRun(c, Len(q), q, NpMin(tvec), NpMax(tvec), -2, 2, MaxCount,
                           MaxCount, kappa, get_nsev_slow_options(dst, cst))
  /\ mem' = MemAfter(call', libcalls')
  /\ UNCHANGED prev

---------------------------------------------------------------------------
(* The caller.                                                             *)

\* the caller is done with the result of a call and may make the next one
Discard ==
  /\ call.fn # "none"
  /\ call' = [fn |-> "none"]
  /\ libcalls' = <<>>
  /\ outcome' = NoOutcome
  /\ mem' = NoMem
  /\ UNCHANGED prev

Init ==
  /\ call = [fn |-> "none"]
  /\ libcalls = <<>>
  /\ outcome = NoOutcome
  /\ mem = NoMem
  /\ prev = NoPrev

Next ==
  \/ nsep_wrapper
  \/ nsep
  \/ nsev_inverse_wrapper
  \/ nsev_inverse_xi_wrapper
  \/ nsev_inverse
  \/ nsev_slow_wrapper
  \/ nsev_slow
  \/ Discard

Spec == Init /\ [][Next]_vars

---------------------------------------------------------------------------
(* A caller that repeats calls made with the required arguments only.      *)

\* the arrays such a caller passes
RepeatArrays == {Ramp(1), Ramp(MaxLen)}

\* nsep(q, T1, T2): every optional argument omitted
nsep_defaults ==
  /\ call.fn = "none"
  /\ \E q \in RepeatArrays :
       NsepRun([fn |-> "nsep", q |-> q, T1 |-> 0, T2 |-> 1, kappa |-> 1, dis |-> None],
               Len(q), q, 0, 1, 1, get_nsep_options(None))
  /\ mem' = MemAfter(call', libcalls')
  /\ UNCHANGED prev

\* nsev_inverse(contspec, tvec, kappa): every optional argument omitted
nsev_inverse_defaults ==
  /\ call.fn = "none"
  /\ \E contspec \in RepeatArrays :
       NsevInverseBody([fn |-> "nsev_inverse", contspec |-> contspec,
                        tvec |-> <<0, 1>>, kappa |-> 1, dis |-> None],
                       contspec, <<0, 1>>, 1, NsevInverseDefaultDis)
  /\ mem' = MemAfter(call', libcalls')
  /\ UNCHANGED prev

\* nsev_slow(q, tvec, M=..., K=...): every option omitted
nsev_slow_defaults ==
  /\ call.fn = "none"
  /\ \E q \in RepeatArrays :
       NsevSlowRun([fn |-> "nsev_slow", q |-> q, tvec |-> <<0, 1>>, Xi1 |-> -2,
                    Xi2 |-> 2, M |-> MaxCount, K |-> MaxCount, kappa |-> 1,
                    dst |-> None, cst |-> None],
                   Len(q), q, NpMin(<<0, 1>>), NpMax(<<0, 1>>), -2, 2, MaxCount,
                   MaxCount, 1, get_nsev_slow_options(None, None))
  /\ mem' = MemAfter(call', libcalls')
  /\ UNCHANGED prev

\* the caller is done with the result but keeps in mind what the call was
\* and what it handed to the library
Remember ==
  /\ call.fn # "none"
  /\ prev' = [call |-> call, libcalls |-> libcalls]
  /\ call' = [fn |-> "none"]
  /\ libcalls' = <<>>
  /\ outcome' = NoOutcome
  /\ mem' = NoMem

NextRepeat ==
  \/ nsep_defaults
  \/ nsev_inverse_defaults
  \/ nsev_slow_defaults
  \/ Discard
  \/ Remember

SpecRepeat == Init /\ [][NextRepeat]_vars

---------------------------------------------------------------------------
(* Properties.                                                             *)

\* the library invocations of the call, and the last of them
LibCallIndices == 1..Len(libcalls)

Returned == outcome.kind = "return"

Raised == outcome.kind = "raise"

TransformFns == {"fnft_nsev_slow", "fnft_nsev_inverse", "fnft_nsep"}

\* C1: in a call of nsev_inverse the library inverse transform is invoked
\* only as the second library call, after fnft_nsev_inverse_XI was invoked
\* with D = len(tvec), T = (min(tvec), max(tvec)), M = len(contspec) and the
\* caller's dis and returned 0; the inverse transform gets exactly the Xi
\* pair that step produced, and options whose discretization is that dis.
C1_XiBeforeInverse ==
  call.fn = "nsev_inverse" =>
    \A i \in LibCallIndices :
      libcalls[i].fn = "fnft_nsev_inverse" =>
        /\ i = 2
        /\ libcalls[1].fn = "fnft_nsev_inverse_XI"
        /\ libcalls[1].D = Len(call.tvec)
        /\ libcalls[1].T = <<NpMin(call.tvec), NpMax(call.tvec)>>
        /\ libcalls[1].M = Len(call.contspec)
        /\ (call.dis # None => libcalls[1].dis = call.dis[1])
        /\ libcalls[1].rv = 0
        /\ libcalls[i].Xi = libcalls[1].out
        /\ libcalls[i].options.discretization = libcalls[1].dis

\* a call of nsev_inverse with dis = 2 that reached the inverse transform
\* with the Xi pair (-2, 2)
C1_Witness ==
  /\ call.fn = "nsev_inverse"
  /\ call.dis = Some(2)
  /\ call.tvec = <<1, 0>>
  /\ Len(libcalls) = 2
  /\ libcalls[2].fn = "fnft_nsev_inverse"
  /\ libcalls[2].Xi = <<-2, 2>>
  /\ Returned

\* C2: when the Xi computation returns a non-zero status inside
\* nsev_inverse, nsev_inverse raises ValueError, the inverse transform is not
\* invoked and no dictionary is returned; nsev_inverse_xi_wrapper called on
\* its own never raises, it returns (status, xi) whatever the status.
C2_XiFailure ==
  /\ (call.fn = "nsev_inverse" /\ Len(libcalls) >= 1 /\ libcalls[1].rv # 0) =>
       /\ Raised
       /\ outcome.exc = "ValueError"
       /\ outcome.rdict = <<>>
       /\ \A i \in LibCallIndices : libcalls[i].fn # "fnft_nsev_inverse"
  /\ call.fn = "nsev_inverse_xi_wrapper" =>
       /\ Returned
       /\ Len(libcalls) = 1
       /\ outcome.pair = <<libcalls[1].rv, libcalls[1].out>>

\* nsev_inverse whose Xi computation reported non-convergence
C2_Witness ==
  /\ call.fn = "nsev_inverse"
  /\ Len(libcalls) = 1
  /\ libcalls[1].fn = "fnft_nsev_inverse_XI"
  /\ libcalls[1].rv = 3
  /\ Raised

\* C3: nsep_wrapper hands the library a main buffer of 4 * D entries and an
\* auxiliary buffer of 2 * D entries and tells it exactly these capacities in
\* K and M, D being the sample count handed over (the caller's D when that is
\* a count, D >= 0); the K and M returned are at most 4 * D and 2 * D, and
\* 'main' and 'aux' have exactly K and M entries.
C3_NsepCounts ==
  call.fn = "nsep_wrapper" =>
    /\ \A i \in LibCallIndices :
         LET a == libcalls[i]
         IN /\ (call.D >= 0 => a.D = call.D)
            /\ Len(a.q.data) = a.D
            /\ a.K = 4 * a.D /\ Len(a.main.data) = 4 * a.D
            /\ a.M = 2 * a.D /\ Len(a.aux.data) = 2 * a.D
    /\ Returned =>
         LET r == outcome.rdict
             a == libcalls[1]
         IN /\ r["K"] <= 4 * a.D /\ r["M"] <= 2 * a.D
            /\ Len(r["main"]) = r["K"]
            /\ Len(r["aux"]) = r["M"]

\* nsep_wrapper with D = 2 for which the library filled both buffers
C3_Witness ==
  /\ call.fn = "nsep_wrapper"
  /\ call.D = 2
  /\ Returned
  /\ outcome.rdict["K"] = 8
  /\ outcome.rdict["M"] = 4

\* the options the library was called with
UsedOptions == libcalls[1].options

\* C4: a result of nsev_slow_wrapper (called directly or through nsev_slow)
\* has 'disc_norm' iff discspec_type is 0 or 2, 'disc_res' iff it is 1 or 2,
\* 'cont_ref' iff contspec_type is 0 or 2, 'cont_a' and 'cont_b' iff it is
\* 1 or 2; for any other value of an option none of its keys is present.
C4_KeysByOptions ==
  (call.fn \in {"nsev_slow_wrapper", "nsev_slow"} /\ Returned) =>
    LET keys == DOMAIN outcome.rdict
        dst  == UsedOptions.discspec_type
        cst  == UsedOptions.contspec_type
    IN /\ ("disc_norm" \in keys) <=> (dst \in {0, 2})
       /\ ("disc_res" \in keys) <=> (dst \in {1, 2})
       /\ ("cont_ref" \in keys) <=> (cst \in {0, 2})
       /\ ("cont_a" \in keys) <=> (cst \in {1, 2})
       /\ ("cont_b" \in keys) <=> (cst \in {1, 2})
       /\ call.fn = "nsev_slow_wrapper" => UsedOptions = call.options

\* a result for discspec_type 1 and an undocumented contspec_type
C4_Witness ==
  /\ call.fn = "nsev_slow_wrapper"
  /\ Returned
  /\ call.options.discspec_type = 1
  /\ call.options.contspec_type = 4
  /\ call.K = 2
  /\ "disc_res" \in DOMAIN outcome.rdict

\* C5: in a result of nsev_slow_wrapper called with maximum bound-state
\* count K (a count, K >= 0), bound_states_num <= K, 'bound_states' has
\* bound_states_num entries, entry i being the i-th bound state the library
\* stored, and each of 'disc_norm', 'disc_res' that is present has as many
\* entries, entry i being the coefficient the library stored for bound state
\* i; also when the library reports K itself.
C5_DiscreteLengths ==
  (call.fn = "nsev_slow_wrapper" /\ Returned) =>
    LET r   == outcome.rdict
        num == r["bound_states_num"]
        dst == call.options.discspec_type
    IN /\ num <= libcalls[1].K
       /\ (call.K >= 0 => num <= call.K)
       /\ Len(r["bound_states"]) = num
       /\ \A i \in 1..num : r["bound_states"][i] = Cplx(i, 4)
       /\ "disc_norm" \in DOMAIN r =>
            /\ Len(r["disc_norm"]) = Len(r["bound_states"])
            /\ \A i \in 1..num : r["disc_norm"][i] = Cplx(i, 5)
       /\ "disc_res" \in DOMAIN r =>
            /\ Len(r["disc_res"]) = Len(r["bound_states"])
            /\ \A i \in 1..num :
                 r["disc_res"][i] = Cplx(IF dst = 2 THEN num + i ELSE i, 5)

\* a result with both coefficient arrays where the library reported K = 2,
\* the maximum
C5_Witness ==
  /\ call.fn = "nsev_slow_wrapper"
  /\ Returned
  /\ call.options.discspec_type = 2
  /\ call.K = 2
  /\ outcome.rdict["bound_states_num"] = 2
  /\ Len(outcome.rdict["disc_res"]) = 2

\* C6: when the library call of a transform ends with InvalidArgument or
\* Fatal, no result dictionary is handed back.
C6_SevereStatusNoResult ==
  \A i \in LibCallIndices :
    (libcalls[i].fn \in TransformFns /\ libcalls[i].rv \in SevereCodes) => ~Returned

\* the arguments of a transform call violate the data-model invariants
InvalidSizes ==
  \/ /\ call.fn \in {"nsev_slow_wrapper", "nsev_inverse_wrapper", "nsep_wrapper"}
     /\ call.D <= 0 \/ call.T1 >= call.T2
  \/ /\ call.fn \in {"nsev_slow_wrapper", "nsev_inverse_wrapper"}
     /\ call.M <= 0 \/ call.K < 0
  \/ /\ call.fn \in {"nsev_slow", "nsev_inverse"}
     /\ Len(call.tvec) > 0
     /\ NpMin(call.tvec) >= NpMax(call.tvec)

\* C7: a transform call whose arguments violate the data-model invariants
\* (D <= 0, M <= 0, K < 0, T1 >= T2) fails before the library is invoked, and
\* a negative size never reaches the library as its value modulo 2^w.
C7_InvalidArgumentsRejected ==
  /\ InvalidSizes => (Raised /\ libcalls = <<>>)
  /\ \A i \in LibCallIndices :
       call.fn \in {"nsev_slow_wrapper", "nsev_inverse_wrapper", "nsep_wrapper"} =>
         /\ call.D >= 0
         /\ libcalls[i].fn # "fnft_nsep" => (call.M >= 0 /\ call.K >= 0)

\* C8: a lower-severity status (degeneracy, non-convergence, truncation) of
\* the library call does not abort a transform: the wrapper returns its
\* dictionary with the output arrays; and 'return_value' of every dictionary
\* returned is the status the library call produced.
C8_LowSeverityReturns ==
  \A i \in LibCallIndices :
    libcalls[i].fn \in TransformFns =>
      /\ libcalls[i].rv \in LowSeverityCodes =>
           /\ Returned
           /\ libcalls[i].fn = "fnft_nsep" =>
                {"main", "aux"} \subseteq DOMAIN outcome.rdict
           /\ libcalls[i].fn = "fnft_nsev_inverse" => "q" \in DOMAIN outcome.rdict
           /\ libcalls[i].fn = "fnft_nsev_slow" =>
                "bound_states" \in DOMAIN outcome.rdict
      /\ Returned => outcome.rdict["return_value"] = libcalls[i].rv

\* nsev_slow_wrapper returning its arrays although the library reported
\* CapacityExceeded
C8_Witness ==
  /\ call.fn = "nsev_slow_wrapper"
  /\ Len(libcalls) = 1
  /\ libcalls[1].rv = 4
  /\ Returned
  /\ outcome.rdict["return_value"] = 4
  /\ Len(outcome.rdict["bound_states"]) = 2

\* C9: when nsev_inverse is called without dis, the Xi computation and the
\* options of the inverse transform use the documented default, dis = 1.
C9_DocumentedDefaultDis ==
  (call.fn = "nsev_inverse" /\ call.dis = None) =>
    \A i \in LibCallIndices :
      /\ libcalls[i].fn = "fnft_nsev_inverse_XI" =>
           libcalls[i].dis = NsevInverseDocumentedDis
      /\ libcalls[i].fn = "fnft_nsev_inverse" =>
           libcalls[i].options.discretization = NsevInverseDocumentedDis

\* what a[:] assigned into a buffer of n cells leaves there
CopyOf(a, n) == [i \in 1..n |-> ToComplex(a[IF Len(a) = 1 THEN 1 ELSE i])]

\* C10: nsev_inverse_wrapper called with K = 0 accepts None for bound_states
\* and normconst_or_residues, does not touch them, and hands the library two
\* null pointers and K = 0; with K > 0 the library gets two buffers of exactly
\* K entries holding the copies of bound_states and normconst_or_residues in
\* index order. nsev_inverse always hands over K = 0 and two null pointers.
C10_OptionalDiscreteSpectrum ==
  /\ (call.fn = "nsev_inverse_wrapper" /\ call.K = 0) => outcome.exc # "TypeError"
  /\ \A i \in LibCallIndices :
       LET a == libcalls[i]
       IN /\ (call.fn = "nsev_inverse_wrapper" /\ call.K = 0) =>
               /\ a.K = 0
               /\ a.bound_states = NullPtr
               /\ a.normconst_or_residues = NullPtr
          /\ (call.fn = "nsev_inverse_wrapper" /\ call.K > 0) =>
               /\ a.K = call.K
               /\ ~a.bound_states.null
               /\ ~a.normconst_or_residues.null
               /\ a.bound_states.data = CopyOf(call.bound_states[1], call.K)
               /\ a.normconst_or_residues.data
                    = CopyOf(call.normconst_or_residues[1], call.K)
          /\ (call.fn = "nsev_inverse" /\ a.fn = "fnft_nsev_inverse") =>
               /\ a.K = 0
               /\ a.bound_states = NullPtr
               /\ a.normconst_or_residues = NullPtr

\* nsev_inverse_wrapper handing over two bound states and their coefficients
C10_Witness ==
  /\ call.fn = "nsev_inverse_wrapper"
  /\ call.K = 2
  /\ Len(libcalls) = 1
  /\ Len(libcalls[1].bound_states.data) = 2
  /\ libcalls[1].normconst_or_residues.data[2] = ToComplex(MaxLen + 2)
  /\ Returned

\* entries [lo, hi) of the buffer the library filled with values tagged `tag`
Segment(tag, lo, hi) == [i \in 1..(hi - lo) |-> Cplx(lo + i, tag)]

\* C12: in a result of nsev_slow_wrapper called with M continuous-spectrum
\* points every continuous-spectrum array has exactly M entries and the
\* arrays are consecutive segments of the one buffer the library filled:
\* 'cont_ref' = [0, M) for contspec_type 0; 'cont_a' = [0, M) and
\* 'cont_b' = [M, 2M) for contspec_type 1; 'cont_ref' = [0, M),
\* 'cont_a' = [M, 2M) and 'cont_b' = [2M, 3M) for contspec_type 2; for
\* discspec_type 2 'disc_norm' = [0, K_new) and 'disc_res' = [K_new, 2 K_new)
\* of the coefficient buffer, K_new being the count the library reported.
C12_SpectrumSegments ==
  (call.fn = "nsev_slow_wrapper" /\ Returned) =>
    LET r     == outcome.rdict
        M     == call.M
        cst   == call.options.contspec_type
        dst   == call.options.discspec_type
        K_new == libcalls[1].Kout
    IN /\ \A k \in DOMAIN r \cap {"cont_ref", "cont_a", "cont_b"} : Len(r[k]) = M
       /\ cst = 0 => r["cont_ref"] = Segment(6, 0, M)
       /\ cst = 1 => /\ r["cont_a"] = Segment(6, 0, M)
                     /\ r["cont_b"] = Segment(6, M, 2 * M)
       /\ cst = 2 => /\ r["cont_ref"] = Segment(6, 0, M)
                     /\ r["cont_a"] = Segment(6, M, 2 * M)
                     /\ r["cont_b"] = Segment(6, 2 * M, 3 * M)
       /\ r["bound_states_num"] = K_new
       /\ dst = 2 => /\ r["disc_norm"] = Segment(5, 0, K_new)
                     /\ r["disc_res"] = Segment(5, K_new, 2 * K_new)

\* a result with all three continuous-spectrum arrays of two entries each
\* and both coefficient arrays, the library having reported one bound state
\* of two possible
C12_Witness ==
  /\ call.fn = "nsev_slow_wrapper"
  /\ Returned
  /\ call.options.contspec_type = 2
  /\ call.options.discspec_type = 2
  /\ call.M = 2
  /\ call.K = 2
  /\ libcalls[1].Kout = 1
  /\ outcome.rdict["cont_b"] = <<Cplx(5, 6), Cplx(6, 6)>>
  /\ outcome.rdict["disc_res"] = <<Cplx(2, 5)>>

\* the size a non-null buffer must have for the size the library is told
HasCapacity(buf, n) == buf.null \/ Len(buf.data) >= n

\* in every library call each non-null buffer has the size the library is
\* told for it, and the T and Xi buffers have two entries
BuffersFit ==
  /\ \A i \in LibCallIndices :
       LET a == libcalls[i]
       IN /\ Len(a.T) = 2
          /\ a.fn = "fnft_nsev_inverse_XI" => Len(a.Xi) = 2
          /\ a.fn = "fnft_nsev_slow" =>
               /\ ~a.q.null /\ Len(a.q.data) = a.D
               /\ Len(a.Xi) = 2
               /\ HasCapacity(a.cont, (a.options.contspec_type + 1) * a.M)
               /\ HasCapacity(a.bound_states, a.K)
               /\ HasCapacity(a.normconst_or_residues,
                              IF a.options.discspec_type = 2 THEN 2 * a.K ELSE a.K)
          /\ a.fn = "fnft_nsev_inverse" =>
               /\ ~a.q.null /\ Len(a.q.data) = a.D
               /\ Len(a.Xi) = 2
               /\ HasCapacity(a.contspec, a.M)
               /\ HasCapacity(a.bound_states, a.K)
               /\ HasCapacity(a.normconst_or_residues, a.K)
          /\ a.fn = "fnft_nsep" =>
               /\ ~a.q.null /\ Len(a.q.data) = a.D
               /\ HasCapacity(a.main, a.K)
               /\ HasCapacity(a.aux, a.M)

\* C13: in every library call each non-null buffer has at least as many
\* entries as the size the library is told for it: the sample buffer exactly
\* D (a q whose length differs from D makes the wrapper fail before the
\* library is invoked), the continuous-spectrum buffer M, 2M or 3M for
\* contspec_type 0, 1, 2, the bound-state buffer K, the coefficient buffer K
\* for discspec_type 0 or 1 and 2K for discspec_type 2, the inverse output
\* buffer D, the nsep buffers K and M, and the T and Xi buffers 2.
C13_BufferCapacity ==
  /\ BuffersFit
  /\ (call.fn \in {"nsev_slow_wrapper", "nsep_wrapper"} /\ Len(call.q) # call.D) =>
       (Raised /\ libcalls = <<>>)

LibOutputs == {"rv", "out", "Kout"}

\* what a library call was handed / what the library gave back
Handed(a) == [f \in DOMAIN a \ LibOutputs |-> a[f]]

Produced(a) == [f \in DOMAIN a \cap LibOutputs |-> a[f]]

\* the arguments of a library call that are output buffers
OutputArgs(a) ==
  IF a.fn = "fnft_nsep" THEN {"main", "aux"}
  ELSE IF a.fn = "fnft_nsev_inverse" THEN {"q"}
  ELSE IF a.fn = "fnft_nsev_slow" THEN {"cont", "bound_states", "normconst_or_residues"}
  ELSE {}

C15_InputsUntouched ==
  call.fn # "none" =>
    /\ DOMAIN mem = DOMAIN call \cap CallerArrays
    /\ \A arg \in DOMAIN mem : mem[arg] = call[arg]
    /\ \A i \in LibCallIndices :
         \A f \in DOMAIN libcalls[i] \cap BufferArgs :
           libcalls[i][f].null \/ libcalls[i][f].owner = "wrapper"

\* nsev_inverse_wrapper after the library was handed the copies of a
\* two-point spectrum and two bound states with their coefficients
C15_Witness ==
  /\ call.fn = "nsev_inverse_wrapper"
  /\ Len(libcalls) = 1
  /\ call.K = 2
  /\ call.contspec = <<1, 2>>
  /\ libcalls[1].contspec.data = <<ToComplex(1), ToComplex(2)>>
  /\ mem["contspec"] = <<1, 2>>
  /\ mem["bound_states"] = Some(<<1, 2>>)
  /\ Returned

=============================================================================
